---- MODULE Spec2Model ----
(***************************************************************************)
(* Model of the Segment protocol client (segment-rs): the frame codec of   *)
(* frame.rs, the connection (stream framer) of connection.rs and the       *)
(* command layer of command.rs.                                            *)
(*                                                                         *)
(* Bytes are the integers 0..255.  A byte string is a sequence of bytes;   *)
(* a cursor position is the 0-based offset of std::io::Cursor, so byte i   *)
(* of the Rust slice is b[i + 1] here.                                     *)
(***************************************************************************)
EXTENDS Integers, Sequences, FiniteSets, TLC

(***************************************************************************)
(* Wire identifiers (frame.rs) and the ASCII bytes the codec looks at.     *)
(***************************************************************************)
STRING_IDENT == 36
INTEGER_IDENT == 37
ARRAY_IDENT == 42
BOOLEAN_IDENT == 94
NULL_IDENT == 45
MAP_IDENT == 35
DOUBLE_IDENT == 46
ERROR_IDENT == 33

CR == 13
LF == 10
CRLF == <<CR, LF>>
ASCII_ZERO == 48
ASCII_PLUS == 43
ASCII_MINUS == 45
ASCII_DOT == 46

(***************************************************************************)
(* 64-bit integers.  An i64 or u64 is kept as its bit pattern: four 16-bit *)
(* limbs, least significant first (two's complement for a signed type).    *)
(* A native integer of a narrower type is kept as the pattern of its value *)
(* widened to 64 bits (sign-extended when negative).                       *)
(***************************************************************************)
LIMB == 65536

Zero64 == <<0, 0, 0, 0>>

\* The pattern of a number small enough to be written out (|n| < 2^31).
I64(n) ==
    <<n % LIMB, (n \div LIMB) % LIMB,
      IF n < 0 THEN LIMB - 1 ELSE 0, IF n < 0 THEN LIMB - 1 ELSE 0>>

\* i64::MAX, i64::MIN and u64::MAX.
I64_MAX == <<LIMB - 1, LIMB - 1, LIMB - 1, 32767>>
I64_MIN == <<0, 0, 0, 32768>>
U64_MAX == <<LIMB - 1, LIMB - 1, LIMB - 1, LIMB - 1>>

\* The sign bit of the pattern.
IsNeg64(w) == w[4] >= 32768

RECURSIVE Pow2(_)
Pow2(k) == IF k = 0 THEN 1 ELSE 2 * Pow2(k - 1)

\* Limbs i..4 of w * m + c followed by the carry out of the top limb
\* (m and c small).
RECURSIVE MulAdd64From(_, _, _, _)
MulAdd64From(w, i, m, c) ==
    LET step(a) == <<a % LIMB>> \o MulAdd64From(w, i + 1, m, a \div LIMB)
    IN  IF i > 4 THEN <<c>> ELSE step(w[i] * m + c)

\* w * m + c modulo 2^64, and whether it passed 2^64 - 1.
MulAdd64(w, m, c) ==
    LET pack(r) == [w |-> SubSeq(r, 1, 4), carry |-> r[5] > 0]
    IN  pack(MulAdd64From(w, 1, m, c))

Not64(w) == [i \in 1..4 |-> LIMB - 1 - w[i]]

\* Wrapping negation, 0 - w modulo 2^64.
Neg64(w) == MulAdd64(Not64(w), 1, 1).w

\* a - b modulo 2^64.
RECURSIVE Add64From(_, _, _, _)
Add64From(a, b, i, c) ==
    LET step(s) == <<s % LIMB>> \o Add64From(a, b, i + 1, s \div LIMB)
    IN  IF i > 4 THEN <<>> ELSE step(a[i] + b[i] + c)

Sub64(a, b) == Add64From(a, Not64(b), 1, 1)

\* Quotient and remainder of the unsigned w by 10, from the top limb down:
\* limbs i..1 are still to divide, r is the remainder so far, q the
\* quotient limbs found.
RECURSIVE DivMod10From(_, _, _, _)
DivMod10From(w, i, r, q) ==
    LET step(a) == DivMod10From(w, i - 1, a % 10, <<a \div 10>> \o q)
    IN  IF i = 0 THEN [q |-> q, r |-> r] ELSE step(r * LIMB + w[i])

DivMod10(w) == DivMod10From(w, 4, 0, <<>>)

(***************************************************************************)
(* Frame values (enum Frame).  A frame is a record [t, v]; Null carries 0. *)
(* An Integer carries the pattern of its i64.  A Double is a decimal       *)
(* m / 10^s kept normalised (s = 0 or m not a multiple of 10), or one of   *)
(* NaN, +inf, -inf.                                                        *)
(***************************************************************************)
FString(bytes) == [t |-> "String", v |-> bytes]
\* Frame::Integer of a number small enough to be written out, and of any
\* pattern.
FInteger(n) == [t |-> "Integer", v |-> I64(n)]
FInteger64(w) == [t |-> "Integer", v |-> w]
FArray(elems) == [t |-> "Array", v |-> elems]
FBoolean(b) == [t |-> "Boolean", v |-> b]
FNull == [t |-> "Null", v |-> 0]
FMap(elems) == [t |-> "Map", v |-> elems]
FDouble(d) == [t |-> "Double", v |-> d]
FError(bytes) == [t |-> "Error", v |-> bytes]

DFin(m, s) == [k |-> "fin", m |-> m, s |-> s]
DNaN == [k |-> "nan", m |-> 0, s |-> 0]
DInf(sign) == [k |-> "inf", m |-> sign, s |-> 0]

\* f64 == f64: NaN is unequal to everything, itself included.
F64Eq(a, b) == a.k # "nan" /\ b.k # "nan" /\ a = b

\* #[derive(PartialEq)] on Frame: same variant and equal payloads, element
\* by element for Array and Map.
RECURSIVE FrameEq(_, _)
FrameEq(f, g) ==
    IF f.t # g.t THEN FALSE
    ELSE IF f.t = "Double" THEN F64Eq(f.v, g.v)
    ELSE IF f.t \in {"Array", "Map"}
         THEN /\ Len(f.v) = Len(g.v)
              /\ \A i \in 1..Len(f.v) : FrameEq(f.v[i], g.v[i])
    ELSE f.v = g.v

(***************************************************************************)
(* Results of the parser.                                                  *)
(***************************************************************************)
ParseOk(f, pos) == [tag |-> "Ok", frame |-> f, pos |-> pos]
ParseErr(e) == [tag |-> "Err", err |-> e]
ParsePanic == [tag |-> "Panic"]

Incomplete == ParseErr("Incomplete")
InvalidFormat == ParseErr("InvalidFormat")
Utf8Error == ParseErr("Utf8Error")
ParseFloatError == ParseErr("ParseFloatError")

(***************************************************************************)
(* Text helpers: decimal formatting (format!("{}", n)), the atoi crate's   *)
(* atoi, UTF-8 validation and f64 text conversion.                         *)
(***************************************************************************)
IsDigit(c) == c >= ASCII_ZERO /\ c <= ASCII_ZERO + 9

Abs(n) == IF n < 0 THEN -n ELSE n

RECURSIVE Pow10(_)
Pow10(k) == IF k = 0 THEN 1 ELSE 10 * Pow10(k - 1)

\* Decimal digits of a natural number, most significant first.
RECURSIVE NatToBytes(_)
NatToBytes(n) ==
    IF n < 10 THEN <<ASCII_ZERO + n>>
    ELSE Append(NatToBytes(n \div 10), ASCII_ZERO + (n % 10))

\* Decimal digits of an unsigned 64-bit pattern, none for zero.
RECURSIVE U64Digits(_)
U64Digits(w) ==
    LET step(d) == Append(U64Digits(d.q), ASCII_ZERO + d.r)
    IN  IF w = Zero64 THEN <<>> ELSE step(DivMod10(w))

U64ToBytes(w) == IF w = Zero64 THEN <<ASCII_ZERO>> ELSE U64Digits(w)

\* Display of an i64: a '-' for negatives, then the digits of the magnitude.
IntToBytes(w) ==
    IF IsNeg64(w) THEN <<ASCII_MINUS>> \o U64ToBytes(Neg64(w))
    ELSE U64ToBytes(w)

\* Number of consecutive ASCII digits of text starting at index from.
RECURSIVE DigitRun(_, _)
DigitRun(text, from) ==
    IF from > Len(text) \/ ~IsDigit(text[from]) THEN 0
    ELSE 1 + DigitRun(text, from + 1)

\* Value of the n digits of text that start at index from.
RECURSIVE DecVal(_, _, _)
DecVal(text, from, n) ==
    IF n = 0 THEN 0
    ELSE 10 * DecVal(text, from, n - 1) + (text[from + n - 1] - ASCII_ZERO)

None == [some |-> FALSE, n |-> 0]
Some(n) == [some |-> TRUE, n |-> n]

\* The digits text[from .. to] accumulated on top of acc as a 64-bit
\* magnitude (acc * 10 + digit at each step); carry is TRUE once the value
\* has passed 2^64 - 1, and the accumulation stops there.
RECURSIVE DecVal64(_, _, _, _)
DecVal64(text, from, to, acc) ==
    IF from > to \/ acc.carry THEN acc
    ELSE DecVal64(text, from + 1, to,
                  MulAdd64(acc.w, 10, text[from] - ASCII_ZERO))

\* atoi::<I>(text): an optional sign, then the leading run of digits; what
\* follows the digits is ignored.  None when no byte was used or when the
\* value leaves the type's range (checked arithmetic; for usize: a negative
\* value).  signed is TRUE for i64, whose value is a 64-bit pattern, and
\* FALSE for usize, whose value (a length or a count, small in every
\* modelled input) is a plain number.
atoi(text, signed) ==
    LET hasSign == Len(text) > 0 /\ text[1] \in {ASCII_PLUS, ASCII_MINUS}
        offset == IF hasSign THEN 1 ELSE 0
        run == DigitRun(text, offset + 1)
        neg == hasSign /\ text[1] = ASCII_MINUS
        used == offset + run
        i64(m) ==
            IF m.carry THEN None
            ELSE IF neg
                THEN (IF ~IsNeg64(m.w) \/ m.w = I64_MIN THEN Some(Neg64(m.w))
                      ELSE None)
            ELSE IF IsNeg64(m.w) THEN None
            ELSE Some(m.w)
        usize(mag) == IF neg /\ mag > 0 THEN None ELSE Some(mag)
    IN  IF used = 0 THEN None
        ELSE IF signed
            THEN i64(DecVal64(text, offset + 1, offset + run,
                              [w |-> Zero64, carry |-> FALSE]))
        ELSE usize(DecVal(text, offset + 1, run))

\* str::from_utf8: TRUE iff b[i..] is well-formed UTF-8.
IsCont(b, i) == i <= Len(b) /\ b[i] >= 128 /\ b[i] <= 191
InRange(b, i, lo, hi) == i <= Len(b) /\ b[i] >= lo /\ b[i] <= hi

RECURSIVE Utf8From(_, _)
Utf8From(b, i) ==
    IF i > Len(b) THEN TRUE
    ELSE LET c == b[i] IN
         IF c < 128 THEN Utf8From(b, i + 1)
         ELSE IF c >= 194 /\ c <= 223
              THEN IsCont(b, i + 1) /\ Utf8From(b, i + 2)
         ELSE IF c >= 224 /\ c <= 239
              THEN /\ InRange(b, i + 1, IF c = 224 THEN 160 ELSE 128,
                                        IF c = 237 THEN 159 ELSE 191)
                   /\ IsCont(b, i + 2)
                   /\ Utf8From(b, i + 3)
         ELSE IF c >= 240 /\ c <= 244
              THEN /\ InRange(b, i + 1, IF c = 240 THEN 144 ELSE 128,
                                        IF c = 244 THEN 143 ELSE 191)
                   /\ IsCont(b, i + 2)
                   /\ IsCont(b, i + 3)
                   /\ Utf8From(b, i + 4)
         ELSE FALSE

Utf8Valid(b) == Utf8From(b, 1)

\* Normal form of the decimal m / 10^s.
RECURSIVE DNorm(_, _)
DNorm(m, s) ==
    IF s > 0 /\ m % 10 = 0 THEN DNorm(m \div 10, s - 1) ELSE DFin(m, s)

\* n as exactly w digits, zero-padded on the left.
RECURSIVE PadDigits(_, _)
PadDigits(n, w) ==
    IF w = 0 THEN <<>>
    ELSE Append(PadDigits(n \div 10, w - 1), ASCII_ZERO + (n % 10))

\* Display of an f64: "NaN", "inf", "-inf", or the shortest decimal that
\* reads back as the same value (no exponent, no trailing ".0").
F64ToBytes(d) ==
    IF d.k = "nan" THEN <<78, 97, 78>>
    ELSE IF d.k = "inf"
         THEN (IF d.m < 0 THEN <<ASCII_MINUS>> ELSE <<>>) \o <<105, 110, 102>>
    ELSE LET p == Pow10(d.s)
             a == Abs(d.m)
         IN  (IF d.m < 0 THEN <<ASCII_MINUS>> ELSE <<>>)
             \o NatToBytes(a \div p)
             \o (IF d.s = 0 THEN <<>>
                 ELSE <<ASCII_DOT>> \o PadDigits(a % p, d.s))

\* ASCII lower case of a byte string.
Lower(b) == [i \in 1..Len(b) |->
                IF b[i] >= 65 /\ b[i] <= 90 THEN b[i] + 32 ELSE b[i]]

\* <f64 as FromStr>::from_str on a UTF-8 text: sign, then digits with an
\* optional '.', at least one digit in all, or nan / inf / infinity in any
\* case.  Texts with an exponent part are not among the modelled inputs.
F64Parse(text) ==
    LET hasSign == Len(text) > 0 /\ text[1] \in {ASCII_PLUS, ASCII_MINUS}
        offset == IF hasSign THEN 1 ELSE 0
        neg == hasSign /\ text[1] = ASCII_MINUS
        rest == SubSeq(text, offset + 1, Len(text))
        ip == DigitRun(text, offset + 1)
        dot == offset + ip + 1
        hasDot == dot <= Len(text) /\ text[dot] = ASCII_DOT
        fp == IF hasDot THEN DigitRun(text, dot + 1) ELSE 0
        used == offset + ip + (IF hasDot THEN 1 + fp ELSE 0)
        mag == DecVal(text, offset + 1, ip) * Pow10(fp)
               + (IF hasDot THEN DecVal(text, dot + 1, fp) ELSE 0)
    IN  IF Lower(rest) = <<110, 97, 110>> THEN Some(DNaN)
        ELSE IF Lower(rest) \in {<<105, 110, 102>>,
                                 <<105, 110, 102, 105, 110, 105, 116, 121>>}
             THEN Some(DInf(IF neg THEN -1 ELSE 1))
        ELSE IF ip + fp = 0 \/ used # Len(text) THEN None
        ELSE Some(DNorm(IF neg THEN -mag ELSE mag, fp))

(***************************************************************************)
(* Decoding (frame.rs).  b is the whole slice under the cursor, pos the    *)
(* cursor position.                                                        *)
(***************************************************************************)
\* Offsets i in pos..Len(b)-2 at which "\r\n" starts (the loop of get_line
\* runs over start..end with end = len - 1, exclusive).
LineEnds(b, pos) ==
    {i \in pos..(Len(b) - 2) : b[i + 1] = CR /\ b[i + 2] = LF}

Min(S) == CHOOSE x \in S : \A y \in S : x <= y

\* A get_line that takes a '\r' for the end of the line without looking at
\* the byte after it.
get_line_lone_cr(b, pos) ==
    LET ends == {i \in pos..(Len(b) - 1) : b[i + 1] = CR} IN
    IF pos >= Len(b) THEN Incomplete
    ELSE IF ends = {} THEN Incomplete
    ELSE LET i == Min(ends)
         IN  [tag |-> "Ok", line |-> SubSeq(b, pos + 1, i), pos |-> i + 2]

\* get_line: the bytes from the cursor up to the first "\r\n", the cursor
\* moved past it; Incomplete when nothing remains or no "\r\n" is found.
get_line(b, pos) ==
    IF pos >= Len(b) THEN Incomplete
    ELSE IF LineEnds(b, pos) = {} THEN Incomplete
    ELSE LET i == Min(LineEnds(b, pos))
         IN  [tag |-> "Ok", line |-> SubSeq(b, pos + 1, i), pos |-> i + 2]

\* skip: advance the cursor by n bytes, Incomplete when fewer remain.
skip(b, pos, n) ==
    IF Len(b) - pos < n THEN Incomplete ELSE [tag |-> "Ok", pos |-> pos + n]

\* parse_string: the header is the payload length len; len + 2 bytes must
\* remain; the first len are copied out and the cursor skips len + 2.
parse_string(b, pos, line) ==
    LET body(len) ==
            IF ~len.some THEN InvalidFormat
            ELSE IF Len(b) - pos < len.n + 2 THEN Incomplete
            ELSE IF skip(b, pos, len.n + 2).tag # "Ok"
                THEN skip(b, pos, len.n + 2)
            ELSE ParseOk(FString(SubSeq(b, pos + 1, pos + len.n)),
                         skip(b, pos, len.n + 2).pos)
    IN  body(atoi(line, FALSE))

\* parse_error: as parse_string, building an Error frame.
parse_error(b, pos, line) ==
    LET body(len) ==
            IF ~len.some THEN InvalidFormat
            ELSE IF Len(b) - pos < len.n + 2 THEN Incomplete
            ELSE IF skip(b, pos, len.n + 2).tag # "Ok"
                THEN skip(b, pos, len.n + 2)
            ELSE ParseOk(FError(SubSeq(b, pos + 1, pos + len.n)),
                         skip(b, pos, len.n + 2).pos)
    IN  body(atoi(line, FALSE))

parse_integer(pos, line) ==
    LET body(int) ==
            IF ~int.some THEN InvalidFormat
            ELSE ParseOk(FInteger64(int.n), pos)
    IN  body(atoi(line, TRUE))

\* parse_boolean: a header longer than one byte is InvalidFormat; line[0]
\* on an empty header is an out-of-bounds index, which panics.
parse_boolean(pos, line) ==
    IF Len(line) > 1 THEN InvalidFormat
    ELSE IF Len(line) = 0 THEN ParsePanic
    ELSE IF line[1] = ASCII_ZERO THEN ParseOk(FBoolean(FALSE), pos)
    ELSE IF line[1] = ASCII_ZERO + 1 THEN ParseOk(FBoolean(TRUE), pos)
    ELSE InvalidFormat

parse_null(pos, line) ==
    IF Len(line) # 0 THEN InvalidFormat ELSE ParseOk(FNull, pos)

parse_double(pos, line) ==
    LET body(double) ==
            IF ~double.some THEN ParseFloatError
            ELSE ParseOk(FDouble(double.n), pos)
    IN  IF ~Utf8Valid(line) THEN Utf8Error ELSE body(F64Parse(line))

RECURSIVE parse(_, _)
RECURSIVE parse_n(_, _, _, _)

\* A loop that gives up at the first element it finds Incomplete and keeps
\* the elements it has.
parse_n_partial(b, pos, n, vec) ==
    LET push(r) ==
            IF r = Incomplete THEN [tag |-> "Ok", frames |-> vec, pos |-> pos]
            ELSE IF r.tag # "Ok" THEN r
            ELSE parse_n(b, r.pos, n - 1, Append(vec, r.frame))
    IN  IF n = 0 THEN [tag |-> "Ok", frames |-> vec, pos |-> pos]
        ELSE push(parse(b, pos))

\* The loops of parse_array and parse_map: n more calls of parse, each
\* frame pushed on vec; the first failure is returned as it is.
parse_n(b, pos, n, vec) ==
    LET push(r) ==
            IF r.tag # "Ok" THEN r
            ELSE parse_n(b, r.pos, n - 1, Append(vec, r.frame))
    IN  IF n = 0 THEN [tag |-> "Ok", frames |-> vec, pos |-> pos]
        ELSE push(parse(b, pos))

parse_array(b, pos, line) ==
    LET wrap(r) == IF r.tag # "Ok" THEN r ELSE ParseOk(FArray(r.frames), r.pos)
        body(len) ==
            IF ~len.some THEN InvalidFormat
            ELSE wrap(parse_n(b, pos, len.n, <<>>))
    IN  body(atoi(line, FALSE))

\* parse_map: len pairs, that is 2 * len frames, key then value.
parse_map(b, pos, line) ==
    LET wrap(r) == IF r.tag # "Ok" THEN r ELSE ParseOk(FMap(r.frames), r.pos)
        body(len) ==
            IF ~len.some THEN InvalidFormat
            ELSE wrap(parse_n(b, pos, 2 * len.n, <<>>))
    IN  body(atoi(line, FALSE))

parse(b, pos) ==
    LET dispatch(frame_type, line, p) ==
            CASE frame_type = STRING_IDENT -> parse_string(b, p, line)
              [] frame_type = INTEGER_IDENT -> parse_integer(p, line)
              [] frame_type = ARRAY_IDENT -> parse_array(b, p, line)
              [] frame_type = BOOLEAN_IDENT -> parse_boolean(p, line)
              [] frame_type = NULL_IDENT -> parse_null(p, line)
              [] frame_type = MAP_IDENT -> parse_map(b, p, line)
              [] frame_type = DOUBLE_IDENT -> parse_double(p, line)
              [] frame_type = ERROR_IDENT -> parse_error(b, p, line)
              [] OTHER -> InvalidFormat
        body(l) ==
            IF l.tag # "Ok" THEN l
            ELSE IF Len(l.line) = 0 THEN InvalidFormat
            ELSE dispatch(l.line[1], Tail(l.line), l.pos)
    IN  body(get_line(b, pos))

(***************************************************************************)
(* Encoding (connection.rs).  The bytes go to the TcpStream as they are    *)
(* produced, so a write that panics has already sent what came before.     *)
(***************************************************************************)
WriteOk(bytes) == [tag |-> "Ok", bytes |-> bytes]
WritePanic(bytes) == [tag |-> "Panic", bytes |-> bytes]

\* write_value: the six scalar variants; Array and Map reach unreachable!().
write_value(frame) ==
    CASE frame.t = "String" ->
           WriteOk(<<STRING_IDENT>> \o NatToBytes(Len(frame.v)) \o CRLF
                   \o frame.v \o CRLF)
      [] frame.t = "Integer" ->
           WriteOk(<<INTEGER_IDENT>> \o IntToBytes(frame.v) \o CRLF)
      [] frame.t = "Boolean" ->
           WriteOk(<<BOOLEAN_IDENT>>
                   \o NatToBytes(IF frame.v THEN 1 ELSE 0) \o CRLF)
      [] frame.t = "Null" -> WriteOk(<<NULL_IDENT>> \o CRLF)
      [] frame.t = "Double" ->
           WriteOk(<<DOUBLE_IDENT>> \o F64ToBytes(frame.v) \o CRLF)
      [] frame.t = "Error" ->
           WriteOk(<<ERROR_IDENT>> \o NatToBytes(Len(frame.v)) \o CRLF
                   \o frame.v \o CRLF)
      [] OTHER -> WritePanic(<<>>)

\* for value in array { self.write_value(value).await?; }, sent being the
\* bytes written before the loop.
RECURSIVE write_values(_, _)
write_values(values, sent) ==
    LET next(w) ==
            IF w.tag # "Ok" THEN WritePanic(sent \o w.bytes)
            ELSE write_values(Tail(values), sent \o w.bytes)
    IN  IF values = <<>> THEN WriteOk(sent) ELSE next(write_value(Head(values)))

\* A write_frame whose Array arm halves the count as the Map arm does.
write_frame_halved(frame) ==
    CASE frame.t \in {"Array", "Map"} ->
           write_values(frame.v,
               <<(IF frame.t = "Array" THEN ARRAY_IDENT ELSE MAP_IDENT)>>
               \o NatToBytes(Len(frame.v) \div 2) \o CRLF)
      [] OTHER -> write_value(frame)

\* A write_frame whose Map arm writes the inner length as the Array arm
\* does.
write_frame_map_len(frame) ==
    CASE frame.t \in {"Array", "Map"} ->
           write_values(frame.v,
               <<(IF frame.t = "Array" THEN ARRAY_IDENT ELSE MAP_IDENT)>>
               \o NatToBytes(Len(frame.v)) \o CRLF)
      [] OTHER -> write_value(frame)

\* write_frame: an Array writes '*' and its element count, a Map '#' and
\* half its inner length (integer division), then every inner frame goes
\* through write_value; any other frame is one write_value.
write_frame(frame) ==
    CASE frame.t = "Array" ->
           write_values(frame.v,
               <<ARRAY_IDENT>> \o NatToBytes(Len(frame.v)) \o CRLF)
      [] frame.t = "Map" ->
           write_values(frame.v,
               <<MAP_IDENT>> \o NatToBytes(Len(frame.v) \div 2) \o CRLF)
      [] OTHER -> write_value(frame)

(***************************************************************************)
(* Reading frames (connection.rs).                                         *)
(***************************************************************************)
\* A parse_frame that forgets to advance the buffer.
parse_frame_no_advance(b) ==
    LET r == parse(b, 0) IN
    IF r.tag = "Ok" THEN [tag |-> "Some", frame |-> r.frame, buf |-> b]
    ELSE IF r = Incomplete THEN [tag |-> "None", buf |-> b]
    ELSE IF r.tag = "Err" THEN [tag |-> "Err", err |-> r.err, buf |-> b]
    ELSE [tag |-> "Panic", buf |-> b]

\* A parse_frame that hands Incomplete on as an error.
parse_frame_incomplete_is_error(b) ==
    LET done(r) ==
            IF r.tag = "Ok"
                THEN [tag |-> "Some", frame |-> r.frame,
                      buf |-> SubSeq(b, r.pos + 1, Len(b))]
            ELSE IF r.tag = "Err"
                THEN [tag |-> "Err", err |-> r.err, buf |-> b]
            ELSE [tag |-> "Panic", buf |-> b]
    IN  done(parse(b, 0))

\* A parse_frame that drops the header line it read from the buffer even
\* when the parse does not succeed.
parse_frame_advance_always(b) ==
    LET rest(l) == IF l.tag = "Ok" THEN SubSeq(b, l.pos + 1, Len(b)) ELSE b
        done(r) ==
            IF r.tag = "Ok"
                THEN [tag |-> "Some", frame |-> r.frame,
                      buf |-> SubSeq(b, r.pos + 1, Len(b))]
            ELSE IF r = Incomplete
                THEN [tag |-> "None", buf |-> rest(get_line(b, 0))]
            ELSE IF r.tag = "Err"
                THEN [tag |-> "Err", err |-> r.err,
                      buf |-> rest(get_line(b, 0))]
            ELSE [tag |-> "Panic", buf |-> b]
    IN  done(parse(b, 0))

\* A parse_frame that empties the buffer when it returns a frame.
parse_frame_clear(b) ==
    LET done(r) ==
            IF r.tag = "Ok"
                THEN [tag |-> "Some", frame |-> r.frame, buf |-> <<>>]
            ELSE IF r = Incomplete THEN [tag |-> "None", buf |-> b]
            ELSE IF r.tag = "Err"
                THEN [tag |-> "Err", err |-> r.err, buf |-> b]
            ELSE [tag |-> "Panic", buf |-> b]
    IN  done(parse(b, 0))

\* parse_frame: parse from the start of the buffer; on success drop the
\* consumed bytes from its front; Incomplete becomes Ok(None); any other
\* error is returned; the buffer is touched on success only.
parse_frame(b) ==
    LET done(r) ==
            IF r.tag = "Ok"
                THEN [tag |-> "Some", frame |-> r.frame,
                      buf |-> SubSeq(b, r.pos + 1, Len(b))]
            ELSE IF r = Incomplete THEN [tag |-> "None", buf |-> b]
            ELSE IF r.tag = "Err"
                THEN [tag |-> "Err", err |-> r.err, buf |-> b]
            ELSE [tag |-> "Panic", buf |-> b]
    IN  done(parse(b, 0))

NoCall == [op |-> "none"]
NoResult == [tag |-> "none"]

RetFrame(f) == [tag |-> "Ok", frame |-> f]
RetFrameError(e) == [tag |-> "FrameError", err |-> e]
RetEof == [tag |-> "Eof"]
RetTCPError == [tag |-> "TCPError"]
RetPanic == [tag |-> "Panic"]

\* A read_frame that reads on after a malformed frame as it does after an
\* incomplete one.
read_frame_poll_retry_on_error(b) ==
    LET next(pf) ==
            CASE pf.tag = "Some" ->
                   [pc |-> "idle", ret |-> RetFrame(pf.frame), buf |-> pf.buf]
              [] pf.tag \in {"None", "Err"} ->
                   [pc |-> "reading", ret |-> NoResult, buf |-> pf.buf]
              [] OTHER -> [pc |-> "panicked", ret |-> RetPanic, buf |-> pf.buf]
    IN  next(parse_frame(b))

\* The head of read_frame's loop on buffer b: return the frame or the
\* error of parse_frame, or go on to await a transport read.  The buffer
\* is as parse_frame left it.
read_frame_poll(b) ==
    LET next(pf) ==
            CASE pf.tag = "Some" ->
                   [pc |-> "idle", ret |-> RetFrame(pf.frame), buf |-> pf.buf]
              [] pf.tag = "None" ->
                   [pc |-> "reading", ret |-> NoResult, buf |-> pf.buf]
              [] pf.tag = "Err" ->
                   [pc |-> "idle", ret |-> RetFrameError(pf.err),
                    buf |-> pf.buf]
              [] OTHER -> [pc |-> "panicked", ret |-> RetPanic, buf |-> pf.buf]
    IN  next(parse_frame(b))

\* A read_frame that keeps only the newest chunk in the buffer.
read_frame_resume_overwrite(b, chunk) ==
    IF Len(chunk) = 0 THEN [pc |-> "idle", ret |-> RetEof, buf |-> b]
    ELSE read_frame_poll(chunk)

\* A read_frame that does not test the byte count of the read.
read_frame_resume_no_eof(b, chunk) == read_frame_poll(b \o chunk)

\* read_buf returned with chunk appended to the buffer: zero bytes is Eof,
\* otherwise the loop goes round.
read_frame_resume(b, chunk) ==
    IF Len(chunk) = 0 THEN [pc |-> "idle", ret |-> RetEof, buf |-> b]
    ELSE read_frame_poll(b \o chunk)

(***************************************************************************)
(* Value conversion and Command::query (command.rs).  A requested result   *)
(* type is a tuple: <<"bool">>, <<"Option", T>>, <<"Vec", T>>, ...         *)
(***************************************************************************)
TBool == <<"bool">>
TString == <<"String">>
TBytes == <<"Bytes">>
TU8 == <<"u8">>
TI8 == <<"i8">>
TU16 == <<"u16">>
TI16 == <<"i16">>
TU32 == <<"u32">>
TI32 == <<"i32">>
TU64 == <<"u64">>
TI64 == <<"i64">>
TF32 == <<"f32">>
TF64 == <<"f64">>
TOption(T) == <<"Option", T>>
TVec(T) == <<"Vec", T>>
THashMap(K, V) == <<"HashMap", K, V>>

IntTypes == {TU8, TI8, TU16, TI16, TU32, TI32, TU64, TI64}
FloatTypes == {TF32, TF64}

\* Width in bits and signedness of an integer type.
Bits(T) ==
    CASE T \in {TU8, TI8} -> 8
      [] T \in {TU16, TI16} -> 16
      [] T \in {TU32, TI32} -> 32
      [] T \in {TU64, TI64} -> 64

Signed(T) == T \in {TI8, TI16, TI32, TI64}

CmdOk(v) == [tag |-> "Ok", val |-> v]
IncompatibleType(from, to) ==
    [tag |-> "IncompatibleType", from |-> from, to |-> to]
QueryError(msg) == [tag |-> "QueryError", msg |-> msg]
CmdUtf8Error == [tag |-> "Utf8Error"]
ConnectionError(e) == [tag |-> "ConnectionError", err |-> e]
Decode == [tag |-> "Decode"]

\* Frame::as_str: the name of the frame's variant.
as_str(frame) == frame.t

\* The low bits of w, the bits above them cleared.
LowBits(w, bits) ==
    [i \in 1..4 |->
        IF 16 * i <= bits THEN w[i]
        ELSE IF 16 * (i - 1) < bits THEN w[i] % Pow2(bits - 16 * (i - 1))
        ELSE 0]

\* w, whose bits above the low ones are clear, with the top one of the low
\* bits copied into all the bits above it.
SignExtend(w, bits) ==
    IF (w[((bits - 1) \div 16) + 1] \div Pow2((bits - 1) % 16)) % 2 = 0
        THEN w
    ELSE [i \in 1..4 |->
            IF 16 * i <= bits THEN w[i]
            ELSE IF 16 * (i - 1) < bits
                THEN w[i] + LIMB - Pow2(bits - 16 * (i - 1))
            ELSE LIMB - 1]

\* T::MAX and T::MIN.
MaxOf(T) == LowBits(U64_MAX, IF Signed(T) THEN Bits(T) - 1 ELSE Bits(T))
MinOf(T) == IF Signed(T) THEN Not64(MaxOf(T)) ELSE Zero64

\* A saturating i64-to-T cast: the value clamped to T's range.
I64AsSaturating(w, T) ==
    IF T = TU64 THEN (IF IsNeg64(w) THEN Zero64 ELSE w)
    ELSE IF T = TI64 THEN w
    ELSE IF IsNeg64(w)
        THEN (IF ~Signed(T) THEN Zero64
              ELSE IF SignExtend(LowBits(w, Bits(T)), Bits(T)) = w THEN w
              ELSE MinOf(T))
    ELSE IF LowBits(w, IF Signed(T) THEN Bits(T) - 1 ELSE Bits(T)) = w THEN w
    ELSE MaxOf(T)

\* val as T for an i64 val and an integer type T: the low Bits(T) bits of
\* the pattern, read as T reads them.
I64As(w, T) ==
    IF Signed(T) THEN SignExtend(LowBits(w, Bits(T)), Bits(T))
    ELSE LowBits(w, Bits(T))

\* The value of a small pattern as a plain number (|value| < 2^31).
Small64(w) ==
    IF IsNeg64(w) THEN -(Neg64(w)[1] + LIMB * Neg64(w)[2])
    ELSE w[1] + LIMB * w[2]

\* val as T for an f64 val and an integer type T: NaN is 0, otherwise the
\* value truncated toward zero and saturated at T::MIN and T::MAX.  The
\* finite Doubles of the model are below 2^31 in magnitude, so only the
\* 8-bit and 16-bit types can saturate on them.
F64As(d, T) ==
    LET clamp(q) ==
            IF q < 0 /\ ~Signed(T) THEN Zero64
            ELSE IF Bits(T) >= 32 THEN I64(q)
            ELSE IF q > Small64(MaxOf(T)) THEN MaxOf(T)
            ELSE IF q < Small64(MinOf(T)) THEN MinOf(T)
            ELSE I64(q)
    IN  IF d.k = "nan" THEN Zero64
        ELSE IF d.k = "inf" THEN (IF d.m < 0 THEN MinOf(T) ELSE MaxOf(T))
        ELSE clamp(IF d.m < 0 THEN -((-d.m) \div Pow10(d.s))
                   ELSE d.m \div Pow10(d.s))

\* val as f64 (or f32) for an i64 val: exact for the Integer frames handed
\* to the float decoders, which are below 2^24 in magnitude.
I64AsF64(w) == DFin(Small64(w), 0)

\* val as f32 for an f64 val: NaN and the infinities stay; the finite
\* Doubles handed to the f32 decoder (1.5, -2) are f32 values already.
F64AsF32(d) == d

RECURSIVE from_segment_frame(_, _)
RECURSIVE from_segment_frames(_, _, _)
RECURSIVE hashmap_pairs(_, _, _, _, _)

\* A bool decoder that takes an Integer for its truth value.
bool_from_segment_frame_truthy(frame) ==
    IF frame.t = "Boolean" THEN CmdOk(frame.v)
    ELSE IF frame.t = "Integer" THEN CmdOk(frame.v # Zero64)
    ELSE IncompatibleType(as_str(frame), TBool)

\* impl FromSegmentFrame for bool.
bool_from_segment_frame(frame) ==
    IF frame.t = "Boolean" THEN CmdOk(frame.v)
    ELSE IncompatibleType(as_str(frame), TBool)

\* impl FromSegmentFrame for String: the payload when it is UTF-8.
string_from_segment_frame(frame) ==
    IF frame.t = "String"
        THEN (IF Utf8Valid(frame.v) THEN CmdOk(frame.v) ELSE CmdUtf8Error)
    ELSE IncompatibleType(as_str(frame), TString)

\* impl FromSegmentFrame for Bytes.
bytes_from_segment_frame(frame) ==
    IF frame.t = "String" THEN CmdOk(frame.v)
    ELSE IncompatibleType(as_str(frame), TBytes)

\* self as i64 for a value of the integer type T: the value's Bits(T) bits,
\* widened to 64 by zero extension (unsigned T) or sign extension (signed
\* T); the 64 bits of a u64 are taken as they are.
AsI64(x, T) ==
    IF Signed(T) THEN SignExtend(LowBits(x, Bits(T)), Bits(T))
    ELSE LowBits(x, Bits(T))

\* A conversion that stops at i64::MAX instead of wrapping.
int_to_segment_frame_clamped(T, x) ==
    FInteger64(IF T = TU64 /\ IsNeg64(x) THEN I64_MAX ELSE AsI64(x, T))

\* impl ToSegmentFrame for u8, i8, u16, i16, u32, i32, u64, i64.
int_to_segment_frame(T, x) == FInteger64(AsI64(x, T))

\* An integer decoder that clamps instead of wrapping.
int_from_segment_frame_saturating(T, frame) ==
    IF frame.t = "Integer" THEN CmdOk(I64AsSaturating(frame.v, T))
    ELSE IF frame.t = "Double" THEN CmdOk(F64As(frame.v, T))
    ELSE IncompatibleType(as_str(frame), T)

\* impl FromSegmentFrame for u8, i8, u16, i16, u32, i32, u64, i64.
int_from_segment_frame(T, frame) ==
    IF frame.t = "Integer" THEN CmdOk(I64As(frame.v, T))
    ELSE IF frame.t = "Double" THEN CmdOk(F64As(frame.v, T))
    ELSE IncompatibleType(as_str(frame), T)

\* impl FromSegmentFrame for f32, f64.
float_from_segment_frame(T, frame) ==
    IF frame.t = "Integer" THEN CmdOk(I64AsF64(frame.v))
    ELSE IF frame.t = "Double"
        THEN CmdOk(IF T = TF32 THEN F64AsF32(frame.v) ELSE frame.v)
    ELSE IncompatibleType(as_str(frame), T)

\* The loop of Vec<T>::from_segment_frame: every element through T's
\* decoder, the first failure returned.
from_segment_frames(T, array, vec) ==
    LET push(r) ==
            IF r.tag # "Ok" THEN r
            ELSE from_segment_frames(T, Tail(array), Append(vec, r.val))
    IN  IF array = <<>> THEN CmdOk(vec)
        ELSE push(from_segment_frame(T, Head(array)))

\* HashMap::insert: the pair takes the place of any pair with an equal key.
\* A HashMap is the set of its <<key, value>> pairs.
Insert(result, key, value) ==
    {p \in result : p[1] # key} \cup {<<key, value>>}

\* The while loop of HashMap<K, V>::from_segment_frame from index idx
\* (0-based): key, value, insert, until idx reaches len - 1.
hashmap_pairs(K, V, map, idx, result) ==
    LET value(k, r) ==
            IF r.tag # "Ok" THEN r
            ELSE hashmap_pairs(K, V, map, idx + 2, Insert(result, k, r.val))
        key(r) ==
            IF r.tag # "Ok" THEN r
            ELSE value(r.val, from_segment_frame(V, map[idx + 2]))
    IN  IF idx >= Len(map) - 1 THEN CmdOk(result)
        ELSE key(from_segment_frame(K, map[idx + 1]))

\* A HashMap decoder without the test of the inner length's parity.
hashmap_from_segment_frame_no_parity(K, V, frame) ==
    IF frame.t # "Map" THEN IncompatibleType(as_str(frame), THashMap(K, V))
    ELSE IF Len(frame.v) = 0 THEN CmdOk({})
    ELSE hashmap_pairs(K, V, frame.v, 0, {})

\* impl FromSegmentFrame for HashMap<K, V>: an empty Map is an empty map,
\* an odd inner length is Decode, otherwise the pairs are decoded in order.
hashmap_from_segment_frame(K, V, frame) ==
    IF frame.t # "Map" THEN IncompatibleType(as_str(frame), THashMap(K, V))
    ELSE IF Len(frame.v) = 0 THEN CmdOk({})
    ELSE IF Len(frame.v) % 2 # 0 THEN Decode
    ELSE hashmap_pairs(K, V, frame.v, 0, {})

from_segment_frame(T, frame) ==
    CASE T = TBool -> bool_from_segment_frame(frame)
      [] T = TString -> string_from_segment_frame(frame)
      [] T = TBytes -> bytes_from_segment_frame(frame)
      [] T \in IntTypes -> int_from_segment_frame(T, frame)
      [] T \in FloatTypes -> float_from_segment_frame(T, frame)
      [] T[1] = "Option" ->
           IF frame.t = "Null" THEN CmdOk([some |-> FALSE])
           ELSE LET wrap(r) ==
                        IF r.tag # "Ok" THEN r
                        ELSE CmdOk([some |-> TRUE, v |-> r.val])
                IN  wrap(from_segment_frame(T[2], frame))
      [] T[1] = "Vec" ->
           IF frame.t = "Array"
               THEN from_segment_frames(T[2], frame.v, <<>>)
           ELSE IncompatibleType(as_str(frame), T)
      [] T[1] = "HashMap" -> hashmap_from_segment_frame(T[2], T[3], frame)

\* A query that has no arm for Error frames.
query_result_no_error_arm(T, ret) ==
    IF ret.tag = "Panic" THEN RetPanic
    ELSE IF ret.tag # "Ok" THEN ConnectionError(ret)
    ELSE from_segment_frame(T, ret.frame)

\* Command::query after write_frame, given what read_frame returned: an
\* error of the connection is passed on; an Error frame becomes QueryError
\* with its payload as UTF-8 text (Utf8Error when it is not); any other
\* frame goes through T's decoder.
query_result(T, ret) ==
    IF ret.tag = "Panic" THEN RetPanic
    ELSE IF ret.tag # "Ok" THEN ConnectionError(ret)
    ELSE IF ret.frame.t = "Error"
        THEN (IF Utf8Valid(ret.frame.v) THEN QueryError(ret.frame.v)
              ELSE CmdUtf8Error)
    ELSE from_segment_frame(T, ret.frame)

(***************************************************************************)
(* The peer.  The server encodes a frame by the grammar of the protocol:   *)
(* every variant as write_value does, an Array or Map as its header and    *)
(* then its inner frames, at any depth.                                    *)
(***************************************************************************)
RECURSIVE ServerEncode(_)
RECURSIVE ServerEncodeAll(_)

ServerEncodeAll(frames) ==
    IF frames = <<>> THEN <<>>
    ELSE ServerEncode(Head(frames)) \o ServerEncodeAll(Tail(frames))

ServerEncode(frame) ==
    CASE frame.t = "Array" ->
           <<ARRAY_IDENT>> \o NatToBytes(Len(frame.v)) \o CRLF
           \o ServerEncodeAll(frame.v)
      [] frame.t = "Map" ->
           <<MAP_IDENT>> \o NatToBytes(Len(frame.v) \div 2) \o CRLF
           \o ServerEncodeAll(frame.v)
      [] OTHER -> write_value(frame).bytes

(***************************************************************************)
(* Bounds and the finite universes the inputs are drawn from.              *)
(***************************************************************************)
\* Most inner frames of a generated Array or Map.
MaxElems == 2
\* Longest generated Boolean header.
MaxHeader == 2
\* Longest payload of the String / Error terminator inputs.
MaxPayload == 2

SeqsUpTo(S, n) == UNION {[1..k -> S] : k \in 0..n}

IsScalar(f) == f.t \notin {"Array", "Map"}

\* A Map frame obeys the data model when its inner length is even.
RECURSIVE WellFormed(_)
WellFormed(f) ==
    IF IsScalar(f) THEN TRUE
    ELSE /\ (f.t = "Map" => Len(f.v) % 2 = 0)
         /\ \A i \in 1..Len(f.v) : WellFormed(f.v[i])

RECURSIVE HasNaN(_)
HasNaN(f) ==
    IF f.t = "Double" THEN f.v.k = "nan"
    ELSE IF IsScalar(f) THEN FALSE
    ELSE \E i \in 1..Len(f.v) : HasNaN(f.v[i])

ScalarFrames ==
    {FString(<<>>), FString(<<97>>), FString(<<97, 98>>),
     FString(<<CR, LF>>), FString(<<255>>),
     FInteger(0), FInteger(1), FInteger(-12), FInteger(300),
     FInteger64(I64_MAX), FInteger64(I64_MIN),
     FBoolean(TRUE), FBoolean(FALSE), FNull,
     FDouble(DFin(15, 1)), FDouble(DFin(-2, 0)), FDouble(DNaN),
     FDouble(DInf(1)),
     FError(<<>>), FError(<<98, 111, 111, 109, 33>>), FError(<<255>>)}

\* The scalars generated Arrays and Maps are built from.
ElemFrames ==
    {FString(<<97, 98>>), FInteger(1), FBoolean(TRUE), FNull,
     FDouble(DFin(15, 1)), FDouble(DNaN), FError(<<98>>)}

FlatFrames ==
    {FArray(e) : e \in SeqsUpTo(ElemFrames, MaxElems)}
    \cup {FMap(e) : e \in SeqsUpTo(ElemFrames, MaxElems)}

InnerComposites ==
    {FArray(<<>>), FArray(<<FInteger(1)>>), FMap(<<>>),
     FMap(<<FNull, FBoolean(TRUE)>>)}

NestedFrames ==
    {FArray(<<c>>) : c \in InnerComposites}
    \cup {FArray(<<FInteger(1), c>>) : c \in InnerComposites}
    \cup {FMap(<<FString(<<97>>), c>>) : c \in InnerComposites}

\* Maps of two pairs.
PairMaps ==
    {FMap(<<FString(<<97>>), FInteger(1), FString(<<98>>), FNull>>),
     FMap(<<FString(<<97>>), FInteger(300), FString(<<97>>), FInteger(1)>>),
     FMap(<<FInteger(1), FBoolean(TRUE), FInteger(257), FBoolean(FALSE)>>)}

Frames == ScalarFrames \cup FlatFrames \cup NestedFrames \cup PairMaps

\* The Array of the wire-format scenario and its bytes,
\* "*2\r\n%1\r\n$2\r\nab\r\n".
ExampleArray == FArray(<<FInteger(1), FString(<<97, 98>>)>>)
ExampleArrayWire ==
    <<42, 50, 13, 10, 37, 49, 13, 10, 36, 50, 13, 10, 97, 98, 13, 10>>

Prefixes(b) == {SubSeq(b, 1, k) : k \in 0..Len(b)}
IsStrictPrefix(p, b) == Len(p) < Len(b) /\ p = SubSeq(b, 1, Len(p))

\* Encodings of the frames that obey the data model, and all their prefixes.
ValidEncodings == {ServerEncode(f) : f \in {g \in Frames : WellFormed(g)}}
TruncatedInputs == UNION {Prefixes(e) : e \in ValidEncodings}

\* Boolean frames with every header of up to MaxHeader bytes of "012t".
BooleanHeaders == SeqsUpTo({48, 49, 50, 116}, MaxHeader)
BooleanInputs == {<<BOOLEAN_IDENT>> \o h \o CRLF : h \in BooleanHeaders}

\* String and Error frames whose payload is followed by any two bytes of
\* '\r', '\n', 'X'.
BulkInput(ident, payload, t1, t2) ==
    <<ident>> \o NatToBytes(Len(payload)) \o CRLF \o payload \o <<t1, t2>>
BulkInputs ==
    {BulkInput(id, pl, t1, t2) :
        id \in {STRING_IDENT, ERROR_IDENT},
        pl \in SeqsUpTo({97}, MaxPayload),
        t1 \in {CR, LF, 88}, t2 \in {CR, LF, 88}}

\* Other malformed or odd inputs.
OtherInputs ==
    {<<63, CR, LF>>, <<CR, LF>>, <<INTEGER_IDENT, 49, 50, 97, CR, LF>>,
     <<INTEGER_IDENT, CR, LF>>, <<NULL_IDENT, 48, CR, LF>>,
     <<DOUBLE_IDENT, 255, CR, LF>>, <<DOUBLE_IDENT, 120, CR, LF>>,
     <<ARRAY_IDENT, 120, CR, LF>>, <<STRING_IDENT, 45, 49, CR, LF>>,
     <<ARRAY_IDENT, 49, CR, LF, 63, CR, LF>>}

\* Longest generated Integer header.
MaxIntHeader == 3

\* Integer frames with every header of up to MaxIntHeader bytes of "12a-+",
\* and the frame "%12ab\r\n".
IntegerHeaders == SeqsUpTo({49, 50, 97, ASCII_MINUS, ASCII_PLUS}, MaxIntHeader)
IntegerInputs ==
    {<<INTEGER_IDENT>> \o h \o CRLF : h \in IntegerHeaders}
    \cup {<<INTEGER_IDENT, 49, 50, 97, 98, CR, LF>>}

\* Largest header count of the generated Array and Map inputs.
MaxCount == 2

\* An Array or Map header with count n followed by complete elements, each
\* "%1\r\n" or "^1\r\n": fewer than the header asks for, as many, or more.
CountElems == {<<INTEGER_IDENT, 49, CR, LF>>, <<BOOLEAN_IDENT, 49, CR, LF>>}

RECURSIVE Flatten(_)
Flatten(seqs) ==
    IF seqs = <<>> THEN <<>> ELSE Head(seqs) \o Flatten(Tail(seqs))

CountInputs ==
    {<<ident>> \o NatToBytes(n) \o CRLF \o Flatten(elems) :
        ident \in {ARRAY_IDENT, MAP_IDENT}, n \in 0..MaxCount,
        elems \in SeqsUpTo(CountElems, 2 * MaxCount + 1)}

ParseInputs ==
    TruncatedInputs \cup BooleanInputs \cup BulkInputs \cup OtherInputs
    \cup IntegerInputs \cup CountInputs

\* Limbs the generated Integer values are made of: values around the
\* 8-, 16-, 32- and 64-bit boundaries, 300 among them.
LowLimbs == {0, 44, 127, 128, 255, 300, 32767, 32768, LIMB - 1}
HighLimbs == {0, 1, 32767, 32768, LIMB - 1}
IntegerFrames ==
    {FInteger64(<<a, b, c, d>>) :
        a \in LowLimbs, b \in HighLimbs, c \in HighLimbs, d \in HighLimbs}

\* The requested types and the frames handed to their decoders.  The
\* float decoders get Integer frames below 2^24 in magnitude only.
DecodeTypes ==
    {TBool, TString, TBytes, TF32, TF64} \cup IntTypes
    \cup {TOption(TString), TVec(TU8), TVec(TString),
          THashMap(TString, TU8), THashMap(TU16, TBool)}

RECURSIVE HasWideInteger(_)
HasWideInteger(f) ==
    IF f.t = "Integer" THEN f.v \in {I64_MAX, I64_MIN}
    ELSE IF IsScalar(f) THEN FALSE
    ELSE \E i \in 1..Len(f.v) : HasWideInteger(f.v[i])

ConvertInputs ==
    {<<T, f>> \in DecodeTypes \X Frames :
        T \in FloatTypes => ~HasWideInteger(f)}
    \cup (IntTypes \X IntegerFrames)

\* Values of the integer types handed to to_segment_frame: for each type
\* the generated patterns that are values of it.  Every 64-bit pattern is a
\* u64, so those above i64::MAX (top bit set) are among them.
ValueInputs ==
    {<<T, f.v>> : T \in IntTypes, f \in IntegerFrames}
    \ {c \in IntTypes \X {f.v : f \in IntegerFrames} :
           I64As(c[2], c[1]) # c[2]}

(***************************************************************************)
(* State.                                                                  *)
(*   buf       Connection.buf: bytes read and not yet consumed             *)
(*   stream    bytes the peer has sent that no read has returned yet       *)
(*   out       bytes the current or last call wrote to the transport       *)
(*   pc        "idle", "reading" (read_frame awaits read_buf) or           *)
(*             "panicked"                                                  *)
(*   call      the call in progress or last made                           *)
(*   result    what that call returned                                     *)
(*   response  the frame read_frame returned to that call, if any          *)
(*   input     the byte slice last handed to frame::parse directly         *)
(* and, to state properties (not program state):                           *)
(*   script    the frames the peer sends, and the bytes that follow them   *)
(*   nframes   how many frames read_frame has returned so far              *)
(*   lastRead  what the last transport read of this call returned: "none"  *)
(*             before the first, else "bytes", "zero" or "error"           *)
(*   prevLogical  TRUE iff the previous call was a query that returned     *)
(*             IncompatibleType or QueryError                              *)
(***************************************************************************)
VARIABLES buf, stream, out, pc, call, result, response, input,
          script, nframes, lastRead, prevLogical

vars == <<buf, stream, out, pc, call, result, response, input,
          script, nframes, lastRead, prevLogical>>

\* Connection::connect: an empty buffer; nothing called yet.
Connected(s) ==
    /\ buf = <<>>
    /\ stream = ServerEncodeAll(s.frames) \o s.tail
    /\ out = <<>>
    /\ pc = "idle"
    /\ call = NoCall
    /\ result = NoResult
    /\ response = <<>>
    /\ input = <<>>
    /\ script = s
    /\ nframes = 0
    /\ lastRead = "none"
    /\ prevLogical = FALSE

NoScript == [frames |-> <<>>, tail |-> <<>>]

(***************************************************************************)
(* The codec on its own: write_frame on a frame, frame::parse on a slice.  *)
(***************************************************************************)
InitCodec == Connected(NoScript)

\* connection.write_frame(&frame) with a transport that accepts every
\* byte: the bytes written, and whether the call returned or panicked.
WriteFrame(frame) ==
    /\ pc = "idle"
    /\ \E w \in {write_frame(frame)} :
          /\ out' = w.bytes
          /\ result' = [tag |-> w.tag]
          /\ pc' = IF w.tag = "Panic" THEN "panicked" ELSE "idle"
    /\ call' = [op |-> "write_frame", frame |-> frame]
    /\ prevLogical' = FALSE
    /\ UNCHANGED <<buf, stream, response, input, script, nframes, lastRead>>

\* frame::parse(&mut Cursor::new(bytes)).
Parse(bytes) ==
    /\ pc = "idle"
    /\ input' = bytes
    /\ call' = [op |-> "parse"]
    /\ \E r \in {parse(bytes, 0)} :
          /\ result' = r
          /\ pc' = IF r.tag = "Panic" THEN "panicked" ELSE "idle"
    /\ prevLogical' = FALSE
    /\ UNCHANGED <<buf, stream, out, response, script, nframes, lastRead>>

\* T::from_segment_frame(&frame).
FromSegmentFrame(T, frame) ==
    /\ pc = "idle"
    /\ call' = [op |-> "from_segment_frame", T |-> T, frame |-> frame]
    /\ \E r \in {from_segment_frame(T, frame)} : result' = r
    /\ prevLogical' = FALSE
    /\ UNCHANGED <<buf, stream, out, pc, response, input, script, nframes,
                   lastRead>>

\* x.to_segment_frame() for a value x of the integer type T.
ToSegmentFrame(T, x) ==
    /\ pc = "idle"
    /\ call' = [op |-> "to_segment_frame", T |-> T, val |-> x]
    /\ \E r \in {int_to_segment_frame(T, x)} : result' = r
    /\ prevLogical' = FALSE
    /\ UNCHANGED <<buf, stream, out, pc, response, input, script, nframes,
                   lastRead>>

\* One codec call per behaviour.
EncodeStep == call = NoCall /\ \E frame \in Frames : WriteFrame(frame)
DecodeStep == call = NoCall /\ \E bytes \in ParseInputs : Parse(bytes)
ConvertStep ==
    call = NoCall /\ \E c \in ConvertInputs : FromSegmentFrame(c[1], c[2])

ValueStep ==
    call = NoCall /\ \E c \in ValueInputs : ToSegmentFrame(c[1], c[2])

NextCodec == EncodeStep \/ DecodeStep \/ ConvertStep \/ ValueStep

SpecCodec == InitCodec /\ [][NextCodec]_vars

(***************************************************************************)
(* The connection: read_frame and Command::query against a peer that       *)
(* sends the script's bytes and then closes.                               *)
(***************************************************************************)
\* Most frames in a generated script of several responses.
MaxResponses == 2

ResponseFrames ==
    {FError(<<98, 111, 111, 109, 33>>), FString(<<97, 98>>), FInteger(300)}

\* Frames sent as the only response of a script.
SingleResponses ==
    ScalarFrames \cup NestedFrames
    \cup {FArray(<<>>), FMap(<<>>), ExampleArray,
          FArray(<<FString(<<CR, LF>>), FDouble(DNaN)>>),
          FMap(<<FString(<<97>>), FInteger(1)>>),
          FMap(<<FNull, FBoolean(TRUE), FInteger(1)>>)}

Tails ==
    {<<>>,
     <<STRING_IDENT, 49, 48, CR, LF, 97, 98, 99>>,
     <<63, CR, LF>>,
     <<BOOLEAN_IDENT, CR, LF>>,
     <<DOUBLE_IDENT, 255, CR, LF>>,
     <<ARRAY_IDENT, 50, CR, LF, INTEGER_IDENT, 49, CR, LF,
       DOUBLE_IDENT, 120, CR, LF>>}

ServerScripts ==
    {[frames |-> <<f>>, tail |-> <<>>] : f \in SingleResponses}
    \cup {[frames |-> fs, tail |-> t] :
            fs \in SeqsUpTo(ResponseFrames, MaxResponses), t \in Tails}

QueryTypes == {TBool, TU8, TOption(TString), TVec(TU8)}

\* Argument lists of a command: arg() pushes one frame per call.
ArgLists ==
    {<<FString(<<97>>), FInteger(1)>>,
     <<FString(<<97>>), FMap(<<>>)>>}

Init == \E s \in ServerScripts : Connected(s)

\* The last call was a query that ended in an application-level error.
LogicalError ==
    /\ call.op = "query"
    /\ pc = "idle"
    /\ result.tag \in {"IncompatibleType", "QueryError"}

\* read_frame, called by c, has reached a return or an await: p is what
\* read_frame_poll / read_frame_resume computed.  A query that gets its
\* frame or error back finishes in the same step.
Deliver(c, p) ==
    /\ buf' = p.buf
    /\ pc' = p.pc
    /\ response' = IF p.ret.tag = "Ok" THEN <<p.ret.frame>> ELSE <<>>
    /\ nframes' = nframes + (IF p.ret.tag = "Ok" THEN 1 ELSE 0)
    /\ result' = IF p.pc = "reading" THEN NoResult
                 ELSE IF c.op = "query" THEN query_result(c.T, p.ret)
                 ELSE p.ret

\* connection.read_frame() is called.
ReadFrameCall ==
    /\ pc = "idle"
    /\ call' = [op |-> "read_frame"]
    /\ prevLogical' = LogicalError
    /\ lastRead' = "none"
    /\ out' = <<>>
    /\ Deliver([op |-> "read_frame"], read_frame_poll(buf))
    /\ UNCHANGED <<stream, input, script>>

\* command.query::<T>(connection) with the given arguments.  The write can
\* fail at its first byte (werr = "write") or at the flush ("flush"); a
\* nested argument makes write_value panic after the bytes before it were
\* sent; otherwise read_frame starts.
QueryCall(args, T, werr) ==
    /\ pc = "idle"
    /\ call' = [op |-> "query", T |-> T, args |-> args]
    /\ prevLogical' = LogicalError
    /\ lastRead' = "none"
    /\ \E w \in {write_frame(FArray(args))} :
          IF werr = "write"
              THEN /\ out' = <<>>
                   /\ result' = ConnectionError(RetTCPError)
                   /\ pc' = "idle"
                   /\ response' = <<>>
                   /\ UNCHANGED <<buf, nframes>>
          ELSE IF w.tag = "Panic"
              THEN /\ out' = w.bytes
                   /\ result' = RetPanic
                   /\ pc' = "panicked"
                   /\ response' = <<>>
                   /\ UNCHANGED <<buf, nframes>>
          ELSE IF werr = "flush"
              THEN /\ out' = w.bytes
                   /\ result' = ConnectionError(RetTCPError)
                   /\ pc' = "idle"
                   /\ response' = <<>>
                   /\ UNCHANGED <<buf, nframes>>
          ELSE /\ out' = w.bytes
               /\ Deliver([op |-> "query", T |-> T, args |-> args],
                          read_frame_poll(buf))
    /\ UNCHANGED <<stream, input, script>>

Query == \E args \in ArgLists, T \in QueryTypes : QueryCall(args, T, "none")

QueryWriteFails ==
    \E args \in ArgLists, werr \in {"write", "flush"} :
        QueryCall(args, TBool, werr)

\* stream.read_buf returns n >= 1 bytes, which are appended to the buffer.
TransportRead ==
    /\ pc = "reading"
    /\ \E n \in 1..Len(stream) :
          /\ stream' = SubSeq(stream, n + 1, Len(stream))
          /\ Deliver(call, read_frame_resume(buf, SubSeq(stream, 1, n)))
    /\ lastRead' = "bytes"
    /\ UNCHANGED <<out, call, input, script, prevLogical>>

\* stream.read_buf returns 0: the peer has closed and nothing is left.
TransportEof ==
    /\ pc = "reading"
    /\ stream = <<>>
    /\ Deliver(call, read_frame_resume(buf, <<>>))
    /\ lastRead' = "zero"
    /\ UNCHANGED <<stream, out, call, input, script, prevLogical>>

\* stream.read_buf fails with an io::Error.
TransportError ==
    /\ pc = "reading"
    /\ Deliver(call, [pc |-> "idle", ret |-> RetTCPError, buf |-> buf])
    /\ lastRead' = "error"
    /\ UNCHANGED <<stream, out, call, input, script, prevLogical>>

Next ==
    \/ ReadFrameCall
    \/ Query
    \/ QueryWriteFails
    \/ TransportRead
    \/ TransportEof
    \/ TransportError

Spec == Init /\ [][Next]_vars

(***************************************************************************)
(* read_frame against a transport that keeps its promise: every awaited    *)
(* read_buf completes, with some of the bytes that are left or, when none  *)
(* is left, with zero bytes.  The caller is free to stop calling.          *)
(***************************************************************************)
\* Contents that hold no CRLF at all: a bare payload, a header that is cut
\* short, a lone CR, LF before CR, an unknown type byte.
UnterminatedTails ==
    {<<97, 98, 99>>,
     <<STRING_IDENT, 53>>,
     <<CR>>,
     <<LF, CR>>,
     <<63, 97>>}

FairScripts ==
    {[frames |-> fs, tail |-> t] :
        fs \in SeqsUpTo(ResponseFrames, MaxResponses),
        t \in Tails \cup UnterminatedTails}

InitFair == \E s \in FairScripts : Connected(s)

NextFair ==
    \/ ReadFrameCall
    \/ TransportRead
    \/ TransportEof

\* TransportRead can happen exactly when a read is awaited and bytes are
\* left, and it always changes the state (it shortens the stream).
TransportReadEnabled == pc = "reading" /\ stream # <<>>

\* Weak fairness of TransportRead, with its enabling condition written out.
TransportReadFair ==
    []<>(~TransportReadEnabled) \/ []<><<TransportRead>>_vars

SpecFair ==
    /\ InitFair
    /\ [][NextFair]_vars
    /\ TransportReadFair
    /\ WF_vars(TransportEof)

(***************************************************************************)
(* Properties of the codec (checked under SpecCodec).                      *)
(***************************************************************************)
Wrote == call.op = "write_frame"
Parsed == call.op = "parse"

\* C1: for every frame f, parsing the bytes write_frame(f) put on the
\* transport yields a frame equal to f (Frame's ==).
C1_RoundTrip ==
    Wrote => LET r == parse(out, 0)
             IN  r.tag = "Ok" /\ FrameEq(r.frame, call.frame)

\* C3: parse of a strict prefix of a valid encoded frame is Incomplete:
\* never a frame, never a malformed-frame error, never a panic.
C3_Truncation ==
    (Parsed /\ \E e \in ValidEncodings : IsStrictPrefix(input, e))
        => result = Incomplete

\* "$2\r\nab\r": a String frame cut between '\r' and '\n' was parsed and
\* found Incomplete.
C3_Witness ==
    /\ Parsed
    /\ input = <<STRING_IDENT, 50, CR, LF, 97, 98, CR>>
    /\ result = Incomplete

\* C5: write_frame never panics, whatever the frame, and writes an Array
\* or Map as its header followed by every inner frame's own encoding,
\* inner Arrays and Maps included.
C5_EncodingTotal ==
    Wrote => /\ result.tag = "Ok"
             /\ pc # "panicked"
             /\ out = ServerEncode(call.frame)

\* The header of a Boolean input: the bytes between '^' and "\r\n".
BooleanHeaderOf(bytes) == SubSeq(bytes, 2, Len(bytes) - 2)

\* C6: a complete Boolean frame parses to Boolean(false) for the header
\* "0", Boolean(true) for "1" and to InvalidFormat for every other header,
\* the empty one included; parse never aborts.
C6_BooleanDecoding ==
    (Parsed /\ input \in BooleanInputs) =>
        LET h == BooleanHeaderOf(input) IN
        result = IF h = <<ASCII_ZERO>>
                     THEN ParseOk(FBoolean(FALSE), Len(input))
                 ELSE IF h = <<ASCII_ZERO + 1>>
                     THEN ParseOk(FBoolean(TRUE), Len(input))
                 ELSE InvalidFormat

\* C7: a String or Error frame whose payload is followed by two bytes
\* other than "\r\n" is not parsed successfully: it is reported malformed.
C7_TerminatorMandatory ==
    (Parsed /\ input \in BulkInputs
            /\ SubSeq(input, Len(input) - 1, Len(input)) # CRLF)
        => (result.tag = "Err" /\ result.err # "Incomplete")

AllScalar(frame) == \A i \in 1..Len(frame.v) : IsScalar(frame.v[i])

\* The wire form of an Array of scalars: '*', the count, CRLF, then the
\* elements' own encodings one after the other.
RECURSIVE ConcatValues(_)
ConcatValues(values) ==
    IF values = <<>> THEN <<>>
    ELSE write_value(Head(values)).bytes \o ConcatValues(Tail(values))

ArrayWire(frame) ==
    <<ARRAY_IDENT>> \o NatToBytes(Len(frame.v)) \o CRLF
    \o ConcatValues(frame.v)

WroteScalarArray == Wrote /\ call.frame.t = "Array" /\ AllScalar(call.frame)

Converted == call.op = "from_segment_frame"

\* The wire form of a Map of scalars with pair count k: '#', k in decimal,
\* CRLF, then the inner frames' own encodings one after the other.
MapWire(frame, k) ==
    <<MAP_IDENT>> \o NatToBytes(k) \o CRLF \o ConcatValues(frame.v)

WroteEvenMap ==
    /\ Wrote /\ call.frame.t = "Map" /\ AllScalar(call.frame)
    /\ Len(call.frame.v) % 2 = 0

Below2(w, bits) ==
    \A i \in 1..4 :
        /\ 16 * (i - 1) >= bits => w[i] = 0
        /\ (16 * (i - 1) < bits /\ bits < 16 * i)
               => w[i] < Pow2(bits - 16 * (i - 1))

\* 2^bits divides the pattern w.
Divides2(bits, w) ==
    \A i \in 1..4 :
        /\ 16 * i <= bits => w[i] = 0
        /\ (16 * (i - 1) < bits /\ bits < 16 * i)
               => w[i] % Pow2(bits - 16 * (i - 1)) = 0

\* r is a value of the integer type T: 0 <= r < 2^bits for an unsigned T,
\* -2^(bits-1) <= r < 2^(bits-1) for a signed one.
InRangeOf(r, T) ==
    IF Signed(T)
        THEN Below2(r, Bits(T) - 1) \/ Below2(Not64(r), Bits(T) - 1)
    ELSE Below2(r, Bits(T))

\* C12: decoding Integer(v) as an integer type of width N never fails and
\* yields the value of that type that is congruent to v modulo 2^N: v mod
\* 2^N for u8, u16, u32, the two's-complement reading of the low N bits for
\* i8, i16, i32 (and v itself for the 64-bit types); Integer(300) as u8 is
\* 44.
C12_NarrowingWraps ==
    (Converted /\ call.T \in IntTypes /\ call.frame.t = "Integer") =>
        /\ result.tag = "Ok"
        /\ InRangeOf(result.val, call.T)
        /\ Divides2(Bits(call.T), Sub64(call.frame.v, result.val))
        /\ (call.T = TU8 /\ call.frame = FInteger(300))
               => result = CmdOk(I64(44))

\* Integer(300) was decoded as u8 and gave 44.
C12_Witness ==
    /\ Converted
    /\ call.T = TU8
    /\ call.frame = FInteger(300)
    /\ result = CmdOk(I64(44))

\* The frame variants a decoder takes a value from.
Accepts(T) ==
    CASE T = TBool -> {"Boolean"}
      [] T \in {TString, TBytes} -> {"String"}
      [] T \in IntTypes \cup FloatTypes -> {"Integer", "Double"}
      [] T[1] = "Vec" -> {"Array"}
      [] T[1] = "HashMap" -> {"Map"}

\* C13: a decoder (bool, String, Bytes, a numeric type, Vec<T>, HashMap)
\* given a frame of a variant it does not accept returns IncompatibleType
\* with the frame's kind and the requested type, and so returns a value
\* for accepted variants only.
C13_IncompatibleType ==
    (Converted /\ call.T[1] # "Option") =>
        /\ call.frame.t \notin Accepts(call.T)
               => result = IncompatibleType(call.frame.t, call.T)
        /\ result.tag = "Ok" => call.frame.t \in Accepts(call.T)

\* bool was requested from a String frame.
C13_Witness ==
    /\ Converted
    /\ call.T = TBool
    /\ call.frame = FString(<<97>>)
    /\ result = IncompatibleType("String", TBool)

\* A generated Array or Map input: its header count, the number of its
\* complete elements and its i-th element.
CountOf(bytes) == bytes[2] - ASCII_ZERO
ElemsOf(bytes) == (Len(bytes) - 4) \div 4
ElemOf(bytes, i) ==
    IF bytes[4 * i + 1] = INTEGER_IDENT THEN FInteger(1) ELSE FBoolean(TRUE)

\* Every Map inside the frame has an even inner length.
RECURSIVE EvenMaps(_)
EvenMaps(f) ==
    IF IsScalar(f) THEN TRUE
    ELSE /\ (f.t = "Map" => Len(f.v) % 2 = 0)
         /\ \A i \in 1..Len(f.v) : EvenMaps(f.v[i])

\* C17: an Array parsed from a header count N has exactly N elements and a
\* Map parsed from a pair count N exactly 2N inner frames, the first ones
\* on the wire, and the cursor stops right after them; with fewer complete
\* elements on the wire the result is Incomplete.  No Map that parse
\* returns, at any depth, has an odd inner length.
C17_CountInvariant ==
    /\ (Parsed /\ result.tag = "Ok") => EvenMaps(result.frame)
    /\ (Parsed /\ input \in CountInputs) =>
          LET isArray == input[1] = ARRAY_IDENT
              need == IF isArray THEN CountOf(input) ELSE 2 * CountOf(input)
              elems == [i \in 1..need |-> ElemOf(input, i)]
          IN  IF ElemsOf(input) < need THEN result = Incomplete
              ELSE result = ParseOk(IF isArray THEN FArray(elems)
                                    ELSE FMap(elems), 4 + 4 * need)

\* "#1\r\n%1\r\n^1\r\n%1\r\n": a pair count of 1 and three elements gave a
\* Map of two frames, and "#2\r\n%1\r\n^1\r\n%1\r\n" would be Incomplete.
C17_Witness ==
    /\ Parsed
    /\ input = <<35, 49, 13, 10, 37, 49, 13, 10, 94, 49, 13, 10,
                 37, 49, 13, 10>>
    /\ result = ParseOk(FMap(<<FInteger(1), FBoolean(TRUE)>>), 12)
    /\ parse(<<35, 50, 13, 10, 37, 49, 13, 10, 94, 49, 13, 10,
               37, 49, 13, 10>>, 0) = Incomplete

\* The header of an Integer input: the bytes between '%' and "\r\n".
IntegerHeaderOf(bytes) == SubSeq(bytes, 2, Len(bytes) - 2)

\* An optional sign and then one or more digits, nothing else.
IsSignedDecimal(h) ==
    LET offset == IF Len(h) > 0 /\ h[1] \in {ASCII_PLUS, ASCII_MINUS}
                      THEN 1 ELSE 0
    IN  /\ Len(h) > offset
        /\ \A i \in (offset + 1)..Len(h) : IsDigit(h[i])

\* C19: a complete Integer frame parses to an Integer only when its whole
\* header is an optionally signed decimal integer; any other header, such
\* as "12ab", gives InvalidFormat.
C19_IntegerHeader ==
    (Parsed /\ input \in IntegerInputs) =>
        IF IsSignedDecimal(IntegerHeaderOf(input))
            THEN result.tag = "Ok" /\ result.frame.t = "Integer"
        ELSE result = InvalidFormat

\* What the key and value decoders give on the inner frames of a Map, in
\* the Map's order.
PairResults(K, V, map) ==
    [i \in 1..Len(map) |->
        from_segment_frame(IF i % 2 = 1 THEN K ELSE V, map[i])]

\* The map of the decoded pairs: for equal keys the later pair stays.
PairsOf(R) ==
    {<<R[2 * i - 1].val, R[2 * i].val>> : i \in
        {i \in 1..(Len(R) \div 2) :
            \A j \in (i + 1)..(Len(R) \div 2) :
                R[2 * j - 1].val # R[2 * i - 1].val}}

\* C20: HashMap<K, V> from a Map frame: an odd inner length gives Decode,
\* never a map; an empty Map the empty map; an even length 2k the map of
\* the k pairs (frame[2i], frame[2i+1]) as K and V decode them, or the
\* first error of those decoders.
C20_OddMapRejected ==
    (Converted /\ call.T[1] = "HashMap" /\ call.frame.t = "Map") =>
        LET R == PairResults(call.T[2], call.T[3], call.frame.v)
            bad == {i \in 1..Len(R) : R[i].tag # "Ok"}
        IN  IF Len(R) % 2 = 1 THEN result = Decode
            ELSE IF Len(R) = 0 THEN result = CmdOk({})
            ELSE IF bad # {} THEN result = R[Min(bad)]
            ELSE result = CmdOk(PairsOf(R))

\* Map(["a", 300, "a", 1]) decoded to {"a": 1}, and a Map of three frames
\* gives Decode.
C20_Witness ==
    /\ Converted
    /\ call.T = THashMap(TString, TU8)
    /\ call.frame = FMap(<<FString(<<97>>), FInteger(300),
                           FString(<<97>>), FInteger(1)>>)
    /\ result = CmdOk({<<(<<97>>), I64(1)>>})
    /\ from_segment_frame(call.T, FMap(<<FString(<<97>>), FInteger(300),
                                        FString(<<97>>)>>)) = Decode

\* The pattern w, read as an unsigned number, is above i64::MAX.
AboveI64Max(w) == w[4] >= 32768

\* C23: for every u64 value x, to_segment_frame gives an Integer frame
\* whose value is congruent to x modulo 2^64 and is negative exactly when
\* x is above i64::MAX (it is then written with a minus sign), and
\* decoding that frame as u64 gives x back.
C23_U64RoundTrip ==
    (call.op = "to_segment_frame" /\ call.T = TU64) =>
        /\ result.t = "Integer"
        /\ Divides2(64, Sub64(result.v, call.val))
        /\ IsNeg64(result.v) <=> AboveI64Max(call.val)
        /\ AboveI64Max(call.val)
               <=> write_value(result).bytes[2] = ASCII_MINUS
        /\ from_segment_frame(TU64, result) = CmdOk(call.val)

\* u64::MAX became Integer(-1), which decodes as u64 to u64::MAX again.
C23_Witness ==
    /\ call = [op |-> "to_segment_frame", T |-> TU64, val |-> U64_MAX]
    /\ result = FInteger(-1)
    /\ from_segment_frame(TU64, result) = CmdOk(U64_MAX)

(***************************************************************************)
(* Properties of the connection (checked under Spec).                      *)
(***************************************************************************)
\* Everything the peer sends, and what of it is not consumed yet.
Wire == ServerEncodeAll(script.frames) \o script.tail
Pending == buf \o stream

Returned == pc = "idle" /\ call.op \in {"read_frame", "query"}

\* C2: when the peer's bytes start with a valid encoded frame, the
\* read_frame call that gets them in chunks, however they are cut, returns
\* exactly the frame that parse gives on the unsplit bytes (same variants
\* and payloads) and leaves what follows it; short of a transport error it
\* returns nothing else.
C2_IncrementalDelivery ==
    LET whole == parse(Wire, 0) IN
    (Returned /\ call.op = "read_frame" /\ whole.tag = "Ok"
        /\ (nframes = 0 \/ (nframes = 1 /\ response # <<>>)))
    => \/ /\ result = RetFrame(whole.frame)
          /\ Pending = SubSeq(Wire, whole.pos + 1, Len(Wire))
       \/ result = RetTCPError /\ lastRead = "error"

\* A nested Array came back from a read_frame that needed transport reads.
C2_Witness ==
    /\ Returned /\ call.op = "read_frame"
    /\ script.frames = <<FArray(<<FInteger(1), FArray(<<FInteger(1)>>)>>)>>
    /\ lastRead = "bytes"
    /\ result = RetFrame(script.frames[1])
    /\ Pending = <<>>

\* C4: a transport read of zero bytes happens only after parse found the
\* buffer Incomplete, and ends the call with Eof (as ConnectionError(Eof)
\* from query), not with a frame error or a transport error; the call has
\* returned, so it reads no more, and the buffer is as it was.
C4_EndOfStream ==
    lastRead = "zero" =>
        /\ pc = "idle"
        /\ response = <<>>
        /\ parse(buf, 0) = Incomplete
        /\ call.op = "read_frame" => result = RetEof
        /\ call.op = "query" => result = ConnectionError(RetEof)

\* "$10\r\nabc" buffered, then a zero-byte read: Eof.
C4_Witness ==
    /\ lastRead = "zero"
    /\ buf = <<STRING_IDENT, 49, 48, CR, LF, 97, 98, 99>>
    /\ call.op = "read_frame"
    /\ result = RetEof

\* C8: a query whose response frame is an Error frame with UTF-8 payload m
\* returns QueryError(m), whatever type was requested; a response of any
\* other variant gives exactly what the requested type's decoder gives.
C8_QueryError ==
    (Returned /\ call.op = "query" /\ response # <<>>) =>
        LET f == response[1] IN
        /\ (f.t = "Error" /\ Utf8Valid(f.v)) => result = QueryError(f.v)
        /\ f.t # "Error" => result = from_segment_frame(call.T, f)

\* The peer sent "!5\r\nboom!\r\n" and the query returned QueryError("boom!").
C8_Witness ==
    /\ Returned /\ call.op = "query"
    /\ Wire = <<33, 53, 13, 10, 98, 111, 111, 109, 33, 13, 10>>
    /\ result = QueryError(<<98, 111, 111, 109, 33>>)

\* The script's frames obey the data model, so each is one frame on the
\* wire.
ScriptOk == \A i \in 1..Len(script.frames) : WellFormed(script.frames[i])

\* The peer's bytes after its first n frames.
WireAfter(n) ==
    SubSeq(Wire, Len(ServerEncodeAll(SubSeq(script.frames, 1, n))) + 1,
           Len(Wire))

\* C9: when a query returns IncompatibleType or QueryError, exactly the
\* bytes of the response frame it read are gone from the peer's unconsumed
\* bytes, and the query after it reads the peer's next frame.
C9_Reusable ==
    (Returned /\ call.op = "query" /\ ScriptOk) =>
        /\ LogicalError =>
              /\ nframes >= 1 /\ nframes <= Len(script.frames)
              /\ response = <<script.frames[nframes]>>
              /\ Pending = WireAfter(nframes)
        /\ (prevLogical /\ response # <<>>) =>
              /\ nframes >= 2 /\ nframes <= Len(script.frames)
              /\ response = <<script.frames[nframes]>>

\* Two logical errors in a row, the second on the peer's second frame.
C9_Witness ==
    /\ LogicalError /\ prevLogical
    /\ nframes = 2
    /\ script.frames = <<FError(<<98, 111, 111, 109, 33>>), FInteger(300)>>
    /\ result.tag = "IncompatibleType"
    /\ response = <<FInteger(300)>>

\* The bytes a step moved from the transport into the buffer, and the
\* buffer contents the step's parse, if it made one, ran on.
Chunk == SubSeq(stream, 1, Len(stream) - Len(stream'))
Polled == buf \o Chunk

\* The step ran parse_frame: a read_frame call or a query whose write
\* went through (the first round of the loop), or a transport read that
\* returned bytes (a later round).
ParseStep ==
    \/ lastRead' = "bytes"
    \/ lastRead' = "none" /\ call'.op = "read_frame"
    \/ /\ lastRead' = "none" /\ call'.op = "query"
       /\ write_frame(FArray(call'.args)).tag = "Ok"
       /\ result' # ConnectionError(RetTCPError)

\* C14: when parse of the buffer fails with InvalidFormat, Utf8Error or
\* ParseFloatError, the call returns in that very step with that error as
\* a FrameError (inside ConnectionError for a query), so no transport read
\* follows the failing parse, and the buffer holds what was parsed,
\* unchanged.
C14_MalformedStops ==
    [][ParseStep =>
          LET r == parse(Polled, 0) IN
          (r.tag = "Err" /\ r # Incomplete) =>
              /\ pc' = "idle"
              /\ buf' = Polled
              /\ response' = <<>>
              /\ result' = IF call'.op = "query"
                               THEN ConnectionError(RetFrameError(r.err))
                           ELSE RetFrameError(r.err)]_vars

\* "*2\r\n%1\r\n.x\r\n" arrived and read_frame returned ParseFloatError
\* with those bytes still buffered.
C14_Witness ==
    /\ Returned /\ call.op = "read_frame"
    /\ lastRead = "bytes"
    /\ result = RetFrameError("ParseFloatError")
    /\ buf = <<42, 50, 13, 10, 37, 49, 13, 10, 46, 120, 13, 10>>

\* The errors of the connection a caller can see.
VisibleErrors ==
    {RetEof, RetTCPError, RetFrameError("InvalidFormat"),
     RetFrameError("Utf8Error"), RetFrameError("ParseFloatError")}

\* C15: what read_frame returns is a frame, Eof, a transport error or a
\* frame error other than Incomplete, and a query returns a value, an
\* error of its own or one of those connection errors; Incomplete never
\* comes back.
C15_IncompleteInternal ==
    /\ result # RetFrameError("Incomplete")
    /\ result # ConnectionError(RetFrameError("Incomplete"))
    /\ (Returned /\ call.op = "read_frame") =>
          result.tag = "Ok" \/ result \in VisibleErrors
    /\ (Returned /\ call.op = "query") =>
          \/ result.tag \in {"Ok", "IncompatibleType", "QueryError",
                             "Utf8Error", "Decode"}
          \/ result.tag = "ConnectionError" /\ result.err \in VisibleErrors

\* A query found "$10\r\nabc" Incomplete, read zero bytes and returned
\* Eof.
C15_Witness ==
    /\ Returned /\ call.op = "query"
    /\ buf = <<STRING_IDENT, 49, 48, CR, LF, 97, 98, 99>>
    /\ parse(buf, 0) = Incomplete
    /\ result = ConnectionError(RetEof)

\* C16: a step changes the buffer in two ways only: a transport read
\* appends the bytes it returned, and a parse that succeeds drops from the
\* front exactly the bytes of the frame that is returned.  A parse that
\* ends in Incomplete or in an error leaves every byte in place.
C16_BufferCommit ==
    [][LET r == parse(Polled, 0) IN
       /\ Chunk # <<>> => lastRead' = "bytes"
       /\ IF ParseStep /\ r.tag = "Ok"
              THEN /\ buf' = SubSeq(Polled, r.pos + 1, Len(Polled))
                   /\ response' = <<r.frame>>
          ELSE buf' = Polled]_vars

\* "*2\r\n%1\r\n" is buffered: the parse went past the first element, found
\* the second missing, and the buffer kept all the bytes.
C16_Witness ==
    /\ pc = "reading"
    /\ lastRead = "bytes"
    /\ buf = <<42, 50, 13, 10, 37, 49, 13, 10>>

\* One top-level Array frame of the arguments, in the order of the arg()
\* calls.
ArgsWire(args) ==
    <<ARRAY_IDENT>> \o NatToBytes(Len(args)) \o CRLF \o ServerEncodeAll(args)

\* C18: a query has written one Array frame of its arguments, in order,
\* before it reads, unless the write failed, in which case it reads
\* nothing; a query that returns anything but a connection error has
\* consumed one response frame.
C18_Submission ==
    call.op = "query" =>
        /\ \/ out = ArgsWire(call.args)
           \/ /\ result = ConnectionError(RetTCPError)
              /\ lastRead = "none"
              /\ response = <<>>
        /\ (Returned /\ result.tag # "ConnectionError") => Len(response) = 1

\* C21: when the peer sends the encodings of well-formed frames f1..fn one
\* after the other, however the transport cuts them, the k-th frame that
\* read_frame returns is fk: none is lost, returned twice or merged with
\* its neighbour, and the bytes not yet returned as a frame are all still
\* in the buffer or on the transport.  The call awaits a transport read
\* only while the buffer holds no complete frame, so a frame that is
\* already buffered is returned without a read.
C21_InOrder ==
    ScriptOk =>
        /\ nframes <= Len(script.frames)
        /\ Pending = WireAfter(nframes)
        /\ response # <<>> => response = <<script.frames[nframes]>>
        /\ (Returned /\ call.op = "read_frame" /\ response # <<>>) =>
              result = RetFrame(script.frames[nframes])
        /\ pc = "reading" => parse(buf, 0) = Incomplete

\* The second of two frames came back from a read_frame that made no
\* transport read: it had arrived in the chunk that completed the first.
C21_Witness ==
    /\ Returned /\ call.op = "read_frame"
    /\ script.frames = <<FString(<<97, 98>>), FInteger(300)>>
    /\ nframes = 2
    /\ lastRead = "none"
    /\ result = RetFrame(FInteger(300))
    /\ Pending = script.tail

(***************************************************************************)
(* Properties of read_frame under a fair transport (checked under          *)
(* SpecFair).                                                              *)
(***************************************************************************)
\* What a read_frame that came back has returned: a frame, a
\* malformed-frame error or Eof.
ReadFrameReturned ==
    /\ pc = "idle"
    /\ \/ result.tag = "Ok"
       \/ result \in VisibleErrors \ {RetTCPError}

\* C22: every read_frame call eventually returns a frame, a malformed-frame
\* error or Eof, whatever bytes the peer sent before closing: bytes with
\* no CRLF in them, an unknown type byte, a frame cut short.
C22_Terminates == (call.op = "read_frame") ~> ReadFrameReturned

\* Every read_frame call eventually ends: it returns, or the task panics
\* inside parse.  It never awaits the transport forever.
C22_NeverAwaitsForever == (call.op = "read_frame") ~> (pc # "reading")

====
